---- MODULE Spec2Model ----
(***************************************************************************)
(* The run-time sequencing engine of the chained timer (component RunMode):*)
(* the phase state machine, the generation counter opIdRef, the playback   *)
(* and interval handles, the announcement cache and every asynchronous     *)
(* continuation (speech-service response, decode, playback completion,     *)
(* alarm completion, interval tick) as a pending task.                     *)
(*                                                                         *)
(* JavaScript runs one callback to completion.  A handler is therefore one *)
(* action.  runSequence assigns the phase twice in one synchronous run     *)
(* when the cache hits (PREPARING_AUDIO, then ANNOUNCING): the variable    *)
(* sync holds the position inside that run, and while it is set no other   *)
(* callback can run, so both assignments are states of the model and no    *)
(* interleaving is added.                                                  *)
(***************************************************************************)
EXTENDS Integers, Sequences, FiniteSets, TLC

\* Bounds of the model.
MaxDuration == 2
MaxBuffer == 1
MaxUserActions == 2
MaxQuietSteps == 3
MaxPreloads == 3
MaxText == 2
MaxSeconds == 125
MaxFrames == 4
MaxStops == 3
MaxAppSteps == 4

VARIABLES
  timers,            \* props.timers: the durationSeconds of each step
  bufferSeconds,     \* props.settings.bufferSeconds
  currentIndex,      \* useState(0)
  phase,             \* useState(PREPARING_AUDIO)
  remainingSeconds,  \* useState(0)
  isPaused,          \* useState(false)
  errorMessage,      \* useState(null): TRUE while a notice is shown
  opIdRef,           \* useRef(0): the generation counter
  audioStopRef,      \* useRef(null): 0, or the playback whose stop() it holds
  intervalRef,       \* useRef(null): 0, or an interval id
  audioCache,        \* useRef(new Map()): the indices that have a buffer
  playing,           \* announcement playbacks that are sounding
  intervals,         \* intervals scheduled in the browser
  tasks,             \* pending awaits: the continuations not yet resumed
  sync,              \* position inside a synchronous run of runSequence
  exited,            \* the component was unmounted (cleanup ran)
  nUser,             \* skip and pause presses so far
  status,            \* App: useState(AppStatus.SETUP)
  call,              \* a call of the speech service: its retries and result
  source             \* a playback started by playAudioBuffer

vars == <<timers, bufferSeconds, currentIndex, phase, remainingSeconds, isPaused,
          errorMessage, opIdRef, audioStopRef, intervalRef, audioCache, playing,
          intervals, tasks, sync, exited, nUser, status, call, source>>

inputs == <<timers, bufferSeconds>>

\* The state of RunMode and its props.
runVars == <<timers, bufferSeconds, currentIndex, phase, remainingSeconds,
             isPaused, errorMessage, opIdRef, audioStopRef, intervalRef,
             audioCache, playing, intervals, tasks, sync, exited, nUser>>

\* What RunMode does not write: the status of App and the state inside a
\* service call and inside a playback.
services == <<call, source>>

otherVars == <<status, services>>

\* No service call, no playback.
NoCall == [pc |-> "idle"]

NoSource == [state |-> "none"]

\* timers.length
totalSteps == Len(timers)

\* timers[index].durationSeconds (the source's indices start at 0)
Duration(index) == timers[index + 1]

\* The step lists and the buffer lengths a run is started with: one and two
\* steps, a zero duration and one long enough for the countdown to take every
\* branch of the tick, at either position.
StepLists == {<<0>>, <<MaxDuration>>, <<MaxDuration, 0>>, <<0, MaxDuration>>}

BufferValues == {0, MaxBuffer}

\* The step lists of the undisturbed runs: every list of these durations up to
\* MaxQuietSteps steps.
QuietStepLists == UNION {[1..n -> {0, MaxDuration}] : n \in 1..MaxQuietSteps}

Phases == {"PREPARING_AUDIO", "ANNOUNCING", "COUNTDOWN", "BUFFER",
           "COMPLETION_ANNOUNCEMENT", "COMPLETED"}

NoSync == <<>>

\* The mutable state as one record, so that a helper of the source is an
\* operator from state to state and a handler is their composition.
St == [currentIndex |-> currentIndex, phase |-> phase,
       remainingSeconds |-> remainingSeconds, isPaused |-> isPaused,
       errorMessage |-> errorMessage, opIdRef |-> opIdRef,
       audioStopRef |-> audioStopRef, intervalRef |-> intervalRef,
       audioCache |-> audioCache, playing |-> playing, intervals |-> intervals,
       tasks |-> tasks, sync |-> sync]

Commit(s) ==
  /\ currentIndex' = s.currentIndex
  /\ phase' = s.phase
  /\ remainingSeconds' = s.remainingSeconds
  /\ isPaused' = s.isPaused
  /\ errorMessage' = s.errorMessage
  /\ opIdRef' = s.opIdRef
  /\ audioStopRef' = s.audioStopRef
  /\ intervalRef' = s.intervalRef
  /\ audioCache' = s.audioCache
  /\ playing' = s.playing
  /\ intervals' = s.intervals
  /\ tasks' = s.tasks
  /\ sync' = s.sync

\* A pending await.  kind: "fetch" (generate...Announcement), "decode"
\* (decodeGeminiAudio), "done" (the playback's done promise), "alarm"
\* (playAlarm), "pfetch" and "pdecode" (the two awaits of preloadNextAudio).
\* op is the captured myOpId (for a preload: the operation that started it,
\* which the code does not keep; it only tells two preloads apart).  n tells
\* apart two alarms of the same operation.
Task(kind, op, index, n) == [kind |-> kind, op |-> op, index |-> index, n |-> n]

RunKinds == {"fetch", "decode", "done", "alarm"}

\* opIdRef.current === myOpId
Live(s, op) == s.opIdRef = op

\* window.clearInterval(id): an id that is not scheduled clears nothing
ClearInterval(ivs, id) == {iv \in ivs : iv.id # id}

\* The id window.setInterval returns: one that no scheduled interval has.
FreshId(used) == CHOOSE n \in 1..(Cardinality(used) + 1) : n \notin used

\* stopEverything that forgets to call the stop handle it holds
StopEverythingKeepsAudio(s) ==
  [s EXCEPT !.audioStopRef = 0,
            !.intervals = ClearInterval(@, s.intervalRef),
            !.intervalRef = 0]

\* stopEverything that stops the playback but leaves the interval scheduled
StopEverythingKeepsInterval(s) ==
  [s EXCEPT !.playing = {p \in @ : p.op # s.audioStopRef},
            !.audioStopRef = 0,
            !.intervalRef = 0]

\* stopEverything (lines 35-44)
StopEverything(s) ==
  [s EXCEPT !.playing = {p \in @ : p.op # s.audioStopRef},
            !.audioStopRef = 0,
            !.intervals = ClearInterval(@, s.intervalRef),
            !.intervalRef = 0]

\* cleanup that stops everything but leaves the generation as it is
CleanupKeepsGeneration(s) == StopEverything(s)

\* cleanup (lines 46-49)
Cleanup(s) == [StopEverything(s) EXCEPT !.opIdRef = @ + 1]

\* startTimer that does not clear the interval it replaces
StartTimerKeepsOld(s, duration, op, cb, idx) ==
  LET id == FreshId({iv.id : iv \in s.intervals})
  IN [s EXCEPT !.remainingSeconds = duration,
               !.intervals = @ \cup {[id |-> id, op |-> op, cb |-> cb, idx |-> idx]},
               !.intervalRef = id]

\* startTimer(duration, myOpId, onComplete): the callback onComplete is cb
\* with the index idx it closes over.
\*   "step"          () => handleStepComplete(index, myOpId)
\*   "buffer"        () => { if (opIdRef.current === myOpId) runSequence(nextIndex) }
\*   "resumeStep"    () => handleStepComplete(currentIndex, opIdRef.current)
\*   "resumeBuffer"  () => runSequence(currentIndex)
StartTimer(s, duration, op, cb, idx) ==
  LET cleared == ClearInterval(s.intervals, s.intervalRef)
      id == FreshId({iv.id : iv \in cleared})
  IN [s EXCEPT !.remainingSeconds = duration,
               !.intervals = cleared \cup {[id |-> id, op |-> op, cb |-> cb, idx |-> idx]},
               !.intervalRef = id]

\* playAudioBuffer(buffer, volume) and audioStopRef.current = stop, then the
\* await of done.
Play(s, op, index) ==
  [s EXCEPT !.playing = @ \cup {[op |-> op, index |-> index]},
            !.audioStopRef = op,
            !.tasks = @ \cup {Task("done", op, index, 0)}]

\* preloadNextAudio(targetIndex) up to its first await
PreloadNextAudio(s, targetIndex, by) ==
  IF targetIndex \in s.audioCache THEN s
  ELSE IF targetIndex <= totalSteps
       THEN [s EXCEPT !.tasks = @ \cup {Task("pfetch", by, targetIndex, 0)}]
       ELSE s

\* runSequence that sets currentIndex before it tests for completion
RunSequenceEntrySetsIndexFirst(s, index) ==
  LET s1 == [s EXCEPT !.opIdRef = @ + 1]
      s2 == StopEverything(s1)
      s3 == [s2 EXCEPT !.errorMessage = FALSE, !.isPaused = FALSE,
                       !.currentIndex = index,
                       !.sync = <<s1.opIdRef, index>>]
  IN IF index >= totalSteps
     THEN [s3 EXCEPT !.phase = "COMPLETION_ANNOUNCEMENT"]
     ELSE [s3 EXCEPT !.phase = "PREPARING_AUDIO"]

\* runSequence that does not clear the pause flag on entry
RunSequenceEntryKeepsPause(s, index) ==
  LET s1 == [s EXCEPT !.opIdRef = @ + 1]
      s2 == StopEverything(s1)
      s3 == [s2 EXCEPT !.errorMessage = FALSE, !.sync = <<s1.opIdRef, index>>]
  IN IF index >= totalSteps
     THEN [s3 EXCEPT !.phase = "COMPLETION_ANNOUNCEMENT"]
     ELSE [s3 EXCEPT !.currentIndex = index, !.phase = "PREPARING_AUDIO"]

\* runSequence(index), lines 93-100 and 127-128: up to the cache lookup
RunSequenceEntry(s, index) ==
  LET s1 == [s EXCEPT !.opIdRef = @ + 1]
      s2 == StopEverything(s1)
      s3 == [s2 EXCEPT !.errorMessage = FALSE, !.isPaused = FALSE,
                       !.sync = <<s1.opIdRef, index>>]
  IN IF index >= totalSteps
     THEN [s3 EXCEPT !.phase = "COMPLETION_ANNOUNCEMENT"]
     ELSE [s3 EXCEPT !.currentIndex = index, !.phase = "PREPARING_AUDIO"]

\* runSequence that calls the speech service without looking in the cache
RunSequenceLookupIgnoresCache(s, op, index) ==
  [s EXCEPT !.sync = NoSync, !.tasks = @ \cup {Task("fetch", op, index, 0)}]

\* runSequence(index), the cache lookup and what follows it up to the first
\* await (lines 103-115 and 132-150)
RunSequenceLookup(s, op, index) ==
  LET s0 == [s EXCEPT !.sync = NoSync]
  IN IF index \in s.audioCache
     THEN IF ~Live(s0, op) THEN s0
          ELSE IF index >= totalSteps THEN Play(s0, op, index)
          ELSE Play([s0 EXCEPT !.phase = "ANNOUNCING"], op, index)
     ELSE [s0 EXCEPT !.tasks = @ \cup {Task("fetch", op, index, 0)}]

\* A catch block that starts the silent countdown but no preload
StepCatchNoPreload(s, op, index) ==
  IF Live(s, op)
  THEN StartTimer([s EXCEPT !.errorMessage = TRUE, !.phase = "COUNTDOWN"],
                  Duration(index), op, "step", index)
  ELSE s

\* A catch block without the check of the generation
StepCatchUnguarded(s, op, index) ==
  PreloadNextAudio(
    StartTimer([s EXCEPT !.errorMessage = TRUE, !.phase = "COUNTDOWN"],
               Duration(index), op, "step", index),
    index + 1, op)

\* The catch block of runSequence's step branch (lines 162-171)
StepCatch(s, op, index) ==
  IF Live(s, op)
  THEN PreloadNextAudio(
         StartTimer([s EXCEPT !.errorMessage = TRUE, !.phase = "COUNTDOWN"],
                    Duration(index), op, "step", index),
         index + 1, op)
  ELSE s

\* The end of runSequence's completion branch (lines 116-123)
CompletionEnd(s, op) ==
  IF Live(s, op) THEN [s EXCEPT !.phase = "COMPLETED"] ELSE s

\* runSequence without the try/catch: a rejected fetch ends the call
AfterFetchNoCatch(s, op, index, ok) ==
  IF ok
  THEN IF ~Live(s, op) THEN s
       ELSE [s EXCEPT !.tasks = @ \cup {Task("decode", op, index, 0)}]
  ELSE s

\* runSequence resumed after "await generate...Announcement" (lines 106-108,
\* 136-139); ok = FALSE is the rejection, which lands in the catch.
AfterFetch(s, op, index, ok) ==
  IF ok
  THEN IF ~Live(s, op) THEN s
       ELSE [s EXCEPT !.tasks = @ \cup {Task("decode", op, index, 0)}]
  ELSE IF index >= totalSteps THEN CompletionEnd(s, op)
       ELSE StepCatch(s, op, index)

\* runSequence whose completion branch has no try/catch: a rejected decode
\* ends the call
AfterDecodeNoCatch(s, op, index, ok) ==
  IF index >= totalSteps
  THEN IF ok
       THEN IF ~Live(s, op) THEN s ELSE Play(s, op, index)
       ELSE s
  ELSE IF ok
       THEN LET s1 == [s EXCEPT !.audioCache = @ \cup {index}]
            IN IF ~Live(s1, op) THEN s1
               ELSE Play([s1 EXCEPT !.phase = "ANNOUNCING"], op, index)
       ELSE StepCatch(s, op, index)

\* runSequence resumed after "await decodeGeminiAudio" (lines 108-115, 139-150)
AfterDecode(s, op, index, ok) ==
  IF index >= totalSteps
  THEN IF ok
       THEN IF ~Live(s, op) THEN s ELSE Play(s, op, index)
       ELSE CompletionEnd(s, op)
  ELSE IF ok
       THEN LET s1 == [s EXCEPT !.audioCache = @ \cup {index}]
            IN IF ~Live(s1, op) THEN s1
               ELSE Play([s1 EXCEPT !.phase = "ANNOUNCING"], op, index)
       ELSE StepCatch(s, op, index)

\* runSequence that starts the countdown without the preload of the next index
AfterDoneNoPreload(s, op, index) ==
  IF index >= totalSteps THEN CompletionEnd(s, op)
  ELSE IF ~Live(s, op) THEN s
  ELSE StartTimer([s EXCEPT !.audioStopRef = 0, !.phase = "COUNTDOWN"],
                  Duration(index), op, "step", index)

\* runSequence without the check of the generation after "await done"
AfterDoneUnguarded(s, op, index) ==
  IF index >= totalSteps THEN CompletionEnd(s, op)
  ELSE PreloadNextAudio(
         StartTimer([s EXCEPT !.audioStopRef = 0, !.phase = "COUNTDOWN"],
                    Duration(index), op, "step", index),
         index + 1, op)

\* runSequence resumed after "await done" (lines 115-123, 150-160)
AfterDone(s, op, index) ==
  IF index >= totalSteps THEN CompletionEnd(s, op)
  ELSE IF ~Live(s, op) THEN s
  ELSE PreloadNextAudio(
         StartTimer([s EXCEPT !.audioStopRef = 0, !.phase = "COUNTDOWN"],
                    Duration(index), op, "step", index),
         index + 1, op)

\* handleStepComplete(completedIndex, myOpId) up to "await playAlarm"
HandleStepCompleteStart(s, completedIndex, op) ==
  IF ~Live(s, op) THEN s
  ELSE LET used == {t.n : t \in {u \in s.tasks : u.kind = "alarm"}}
       IN [s EXCEPT !.tasks = @ \cup {Task("alarm", op, completedIndex, FreshId(used))}]

\* handleStepComplete with the buffer test off by one (<= for <)
HandleStepCompleteEndOffByOne(s, completedIndex, op) ==
  LET nextIndex == completedIndex + 1
  IN IF ~Live(s, op) THEN s
     ELSE IF nextIndex <= totalSteps /\ bufferSeconds > 0
          THEN StartTimer([s EXCEPT !.phase = "BUFFER", !.currentIndex = nextIndex],
                          bufferSeconds, op, "buffer", nextIndex)
          ELSE RunSequenceEntry(s, nextIndex)

\* handleStepComplete without the check of the generation after the alarm
HandleStepCompleteEndUnguarded(s, completedIndex, op) ==
  LET nextIndex == completedIndex + 1
  IN IF nextIndex < totalSteps /\ bufferSeconds > 0
     THEN StartTimer([s EXCEPT !.phase = "BUFFER", !.currentIndex = nextIndex],
                     bufferSeconds, op, "buffer", nextIndex)
     ELSE RunSequenceEntry(s, nextIndex)

\* handleStepComplete that never inserts the buffer
HandleStepCompleteEndNoBuffer(s, completedIndex, op) ==
  IF ~Live(s, op) THEN s ELSE RunSequenceEntry(s, completedIndex + 1)

\* handleStepComplete resumed after the alarm resolved or rejected (the
\* rejection is caught and logged, lines 200-204), lines 206-222
HandleStepCompleteEnd(s, completedIndex, op) ==
  LET nextIndex == completedIndex + 1
  IN IF ~Live(s, op) THEN s
     ELSE IF nextIndex < totalSteps /\ bufferSeconds > 0
          THEN StartTimer([s EXCEPT !.phase = "BUFFER", !.currentIndex = nextIndex],
                          bufferSeconds, op, "buffer", nextIndex)
          ELSE RunSequenceEntry(s, nextIndex)

\* onComplete() of an interval
OnComplete(s, iv) ==
  CASE iv.cb = "step" -> HandleStepCompleteStart(s, iv.idx, iv.op)
    [] iv.cb = "buffer" -> IF Live(s, iv.op) THEN RunSequenceEntry(s, iv.idx) ELSE s
    [] iv.cb = "resumeStep" -> HandleStepCompleteStart(s, iv.idx, s.opIdRef)
    [] iv.cb = "resumeBuffer" -> RunSequenceEntry(s, iv.idx)

\* An interval callback that leaves its interval scheduled at zero
IntervalCallbackKeepsTicking(s, iv) ==
  IF ~Live(s, iv.op)
  THEN [s EXCEPT !.intervals = ClearInterval(@, s.intervalRef)]
  ELSE IF s.remainingSeconds <= 1
       THEN [OnComplete(s, iv) EXCEPT !.remainingSeconds = 0]
       ELSE [s EXCEPT !.remainingSeconds = @ - 1]

\* The interval callback of startTimer (lines 179-193)
IntervalCallback(s, iv) ==
  IF ~Live(s, iv.op)
  THEN [s EXCEPT !.intervals = ClearInterval(@, s.intervalRef)]
  ELSE IF s.remainingSeconds <= 1
       THEN [OnComplete([s EXCEPT !.intervals = ClearInterval(@, s.intervalRef)], iv)
               EXCEPT !.remainingSeconds = 0]
       ELSE [s EXCEPT !.remainingSeconds = @ - 1]

\* togglePause whose resumed timer always ends in handleStepComplete
TogglePauseHandlerStepOnly(s) ==
  IF s.phase \notin {"COUNTDOWN", "BUFFER"} THEN s
  ELSE IF s.isPaused
       THEN StartTimer([s EXCEPT !.isPaused = FALSE], s.remainingSeconds, s.opIdRef,
                       "resumeStep", s.currentIndex)
       ELSE [s EXCEPT !.isPaused = TRUE,
                      !.intervals = ClearInterval(@, s.intervalRef)]

\* togglePause without the test of the phase
TogglePauseHandlerUnguarded(s) ==
  IF s.isPaused
  THEN StartTimer([s EXCEPT !.isPaused = FALSE], s.remainingSeconds, s.opIdRef,
                  IF s.phase = "BUFFER" THEN "resumeBuffer" ELSE "resumeStep",
                  s.currentIndex)
  ELSE [s EXCEPT !.isPaused = TRUE,
                 !.intervals = ClearInterval(@, s.intervalRef)]

\* togglePause (lines 239-258)
TogglePauseHandler(s) ==
  IF s.phase \notin {"COUNTDOWN", "BUFFER"} THEN s
  ELSE IF s.isPaused
       THEN StartTimer([s EXCEPT !.isPaused = FALSE], s.remainingSeconds, s.opIdRef,
                       IF s.phase = "BUFFER" THEN "resumeBuffer" ELSE "resumeStep",
                       s.currentIndex)
       ELSE [s EXCEPT !.isPaused = TRUE,
                      !.intervals = ClearInterval(@, s.intervalRef)]

\* preloadNextAudio that reports a failed fetch to the user
AfterPreloadFetchShowsNotice(s, by, index, ok) ==
  IF ok THEN [s EXCEPT !.tasks = @ \cup {Task("pdecode", by, index, 0)}]
  ELSE [s EXCEPT !.errorMessage = TRUE]

\* preloadNextAudio resumed after its fetch and after its decode (lines 73-87)
AfterPreloadFetch(s, by, index, ok) ==
  IF ok THEN [s EXCEPT !.tasks = @ \cup {Task("pdecode", by, index, 0)}] ELSE s

AfterPreloadDecode(s, index, ok) ==
  IF ok THEN [s EXCEPT !.audioCache = @ \cup {index}] ELSE s

\* playAudioBuffer throws (a call of the audio context fails, lines 190-215):
\* the exception lands in the catch of the branch that called it.  The caller
\* has just found its generation live (lines 111, 144).
PlayThrows(s, op, index) ==
  IF index >= totalSteps THEN CompletionEnd(s, op) ELSE StepCatch(s, op, index)

\* The state with the await t resumed: t is no longer pending.
Resumed(s, t) == [s EXCEPT !.tasks = @ \ {t}]

\* The state of the component when it is constructed (lines 15-28), for a
\* step list drawn from lists.
InitWith(lists) ==
  /\ timers \in lists
  /\ bufferSeconds \in BufferValues
  /\ currentIndex = 0
  /\ phase = "PREPARING_AUDIO"
  /\ remainingSeconds = 0
  /\ isPaused = FALSE
  /\ errorMessage = FALSE
  /\ opIdRef = 0
  /\ audioStopRef = 0
  /\ intervalRef = 0
  /\ audioCache = {}
  /\ playing = {}
  /\ intervals = {}
  /\ tasks = {}
  /\ sync = NoSync
  /\ exited = FALSE
  /\ nUser = 0
  /\ status = "RUNNING"
  /\ call = NoCall
  /\ source = NoSource

Init == InitWith(StepLists)

\* The mount effect (lines 227-233): runSequence(0)
Mount ==
  /\ opIdRef = 0 /\ sync = NoSync /\ ~exited
  /\ Commit(RunSequenceEntry(St, 0))
  /\ UNCHANGED <<inputs, otherVars, exited, nUser>>

\* The rest of the synchronous run of runSequence
Lookup ==
  /\ sync # NoSync
  /\ Commit(RunSequenceLookup(St, sync[1], sync[2]))
  /\ UNCHANGED <<inputs, otherVars, exited, nUser>>

\* The synchronous run of runSequence finds the buffer in the cache and
\* playAudioBuffer throws.
LookupPlayThrows ==
  /\ sync # NoSync /\ sync[2] \in audioCache
  /\ Commit(PlayThrows([St EXCEPT !.sync = NoSync], sync[1], sync[2]))
  /\ UNCHANGED <<inputs, otherVars, exited, nUser>>

\* The speech service answers a generate...Announcement call of runSequence.
FetchDone(t, ok) ==
  /\ sync = NoSync /\ t \in tasks /\ t.kind = "fetch"
  /\ Commit(AfterFetch(Resumed(St, t), t.op, t.index, ok))
  /\ UNCHANGED <<inputs, otherVars, exited, nUser>>

\* decodeGeminiAudio resolves or rejects in runSequence.
DecodeDone(t, ok) ==
  /\ sync = NoSync /\ t \in tasks /\ t.kind = "decode"
  /\ Commit(AfterDecode(Resumed(St, t), t.op, t.index, ok))
  /\ UNCHANGED <<inputs, otherVars, exited, nUser>>

\* decodeGeminiAudio resolves in a live runSequence (the step branch stores
\* the buffer, line 141) and playAudioBuffer throws.
DecodePlayThrows(t) ==
  /\ sync = NoSync /\ t \in tasks /\ t.kind = "decode" /\ t.op = opIdRef
  /\ LET s0 == Resumed(St, t)
         s1 == IF t.index >= totalSteps THEN s0
               ELSE [s0 EXCEPT !.audioCache = @ \cup {t.index}]
     IN Commit(PlayThrows(s1, t.op, t.index))
  /\ UNCHANGED <<inputs, otherVars, exited, nUser>>

\* The done promise of a playback resolves: the playback ended by itself
\* (it is still in playing) or stop() was called before.
PlaybackDone(t) ==
  /\ sync = NoSync /\ t \in tasks /\ t.kind = "done"
  /\ Commit(AfterDone([Resumed(St, t) EXCEPT !.playing = {p \in @ : p.op # t.op}],
                      t.op, t.index))
  /\ UNCHANGED <<inputs, otherVars, exited, nUser>>

\* playAlarm resolves, or rejects (ok = FALSE).
AlarmDone(t, ok) ==
  /\ sync = NoSync /\ t \in tasks /\ t.kind = "alarm"
  /\ ok \in BOOLEAN
  /\ Commit(HandleStepCompleteEnd(Resumed(St, t), t.index, t.op))
  /\ UNCHANGED <<inputs, otherVars, exited, nUser>>

\* The speech service answers a call of preloadNextAudio.
PreloadFetchDone(t, ok) ==
  /\ sync = NoSync /\ t \in tasks /\ t.kind = "pfetch"
  /\ Commit(AfterPreloadFetch(Resumed(St, t), t.op, t.index, ok))
  /\ UNCHANGED <<inputs, otherVars, exited, nUser>>

PreloadDecodeDone(t, ok) ==
  /\ sync = NoSync /\ t \in tasks /\ t.kind = "pdecode"
  /\ Commit(AfterPreloadDecode(Resumed(St, t), t.index, ok))
  /\ UNCHANGED <<inputs, otherVars, exited, nUser>>

\* One second passes for a scheduled interval.
Tick(iv) ==
  /\ sync = NoSync /\ iv \in intervals
  /\ Commit(IntervalCallback(St, iv))
  /\ UNCHANGED <<inputs, otherVars, exited, nUser>>

\* handleSkip that passes over a step
SkipTwoSteps ==
  /\ sync = NoSync /\ ~exited /\ phase # "COMPLETED"
  /\ nUser < MaxUserActions
  /\ Commit(RunSequenceEntry(St, currentIndex + 2))
  /\ nUser' = nUser + 1
  /\ UNCHANGED <<inputs, otherVars, exited>>

\* handleSkip (lines 235-237); the completed view has no skip button.
Skip ==
  /\ sync = NoSync /\ ~exited /\ phase # "COMPLETED"
  /\ nUser < MaxUserActions
  /\ Commit(RunSequenceEntry(St, currentIndex + 1))
  /\ nUser' = nUser + 1
  /\ UNCHANGED <<inputs, otherVars, exited>>

\* The pause button pressed while not paused.
Pause ==
  /\ sync = NoSync /\ ~exited /\ phase # "COMPLETED" /\ ~isPaused
  /\ nUser < MaxUserActions
  /\ Commit(TogglePauseHandler(St))
  /\ nUser' = IF phase \in {"COUNTDOWN", "BUFFER"} THEN nUser + 1 ELSE nUser
  /\ UNCHANGED <<inputs, otherVars, exited>>

\* The pause button pressed while paused.
Resume ==
  /\ sync = NoSync /\ ~exited /\ phase # "COMPLETED" /\ isPaused
  /\ Commit(TogglePauseHandler(St))
  /\ UNCHANGED <<inputs, otherVars, exited, nUser>>

\* onExit: handleExit of App sets the status SETUP, the component unmounts
\* and the effect's cleanup runs (lines 46-53).
Exit ==
  /\ sync = NoSync /\ ~exited /\ opIdRef > 0
  /\ Commit(Cleanup(St))
  /\ exited' = TRUE
  /\ status' = "SETUP"
  /\ UNCHANGED <<inputs, services, nUser>>

\* The 5 second timeout of the error notice (lines 56-61).
DismissError ==
  /\ sync = NoSync /\ ~exited /\ errorMessage
  /\ errorMessage' = FALSE
  /\ UNCHANGED <<inputs, otherVars, currentIndex, phase, remainingSeconds, isPaused, opIdRef,
                 audioStopRef, intervalRef, audioCache, playing, intervals, tasks,
                 sync, exited, nUser>>

Deliver ==
  \/ \E t \in tasks, ok \in BOOLEAN : FetchDone(t, ok)
  \/ \E t \in tasks, ok \in BOOLEAN : DecodeDone(t, ok)
  \/ \E t \in tasks : DecodePlayThrows(t)
  \/ \E t \in tasks : PlaybackDone(t)
  \/ \E t \in tasks, ok \in BOOLEAN : AlarmDone(t, ok)
  \/ \E t \in tasks, ok \in BOOLEAN : PreloadFetchDone(t, ok)
  \/ \E t \in tasks, ok \in BOOLEAN : PreloadDecodeDone(t, ok)
  \/ \E iv \in intervals : Tick(iv)

User == Skip \/ Pause \/ Resume \/ Exit \/ DismissError

Next == Mount \/ Lookup \/ LookupPlayThrows \/ Deliver \/ User

Spec == Init /\ [][Next]_vars

\* The run left alone: no user action, and every call of the speech service
\* and every decode succeeds.
QuietNext ==
  \/ Mount
  \/ Lookup
  \/ \E t \in tasks : FetchDone(t, TRUE)
  \/ \E t \in tasks : DecodeDone(t, TRUE)
  \/ \E t \in tasks : PlaybackDone(t)
  \/ \E t \in tasks, ok \in BOOLEAN : AlarmDone(t, ok)
  \/ \E t \in tasks : PreloadFetchDone(t, TRUE)
  \/ \E t \in tasks : PreloadDecodeDone(t, TRUE)
  \/ \E iv \in intervals : Tick(iv)

\* Every pending service call, playback, alarm and interval eventually
\* completes: the event loop runs a callback that is ready.
QuietSpec == InitWith(QuietStepLists) /\ [][QuietNext]_vars /\ WF_vars(QuietNext)

\* The run of a user who never exits and never leaves the run paused: every
\* pending callback eventually runs, and a paused run is eventually resumed.
LiveNext ==
  Mount \/ Lookup \/ LookupPlayThrows \/ Deliver \/ Skip \/ Pause \/ Resume \/ DismissError

\* The step lists of the runs checked for progress.
FairStepLists == {<<0>>, <<MaxDuration, 0>>}

FairSpec ==
  /\ InitWith(FairStepLists) /\ [][LiveNext]_vars
  /\ WF_vars(Mount \/ Lookup \/ LookupPlayThrows \/ Deliver)
  /\ WF_vars(Resume)

\* preloadNextAudio on its own: called for any index at any moment, also
\* while earlier calls are in flight (at most MaxPreloads of them), each
\* fetch and decode succeeding or failing.
PreloadCall(i) ==
  /\ Cardinality(tasks) < MaxPreloads
  /\ Commit(PreloadNextAudio(St, i, FreshId({t.op : t \in tasks})))
  /\ UNCHANGED <<inputs, otherVars, exited, nUser>>

PreloadNext ==
  \/ \E i \in 0..(totalSteps + 1) : PreloadCall(i)
  \/ \E t \in tasks, ok \in BOOLEAN : PreloadFetchDone(t, ok)
  \/ \E t \in tasks, ok \in BOOLEAN : PreloadDecodeDone(t, ok)

PreloadSpec == Init /\ [][PreloadNext]_vars

----------------------------------------------------------------------------
\* The speech service (services/geminiService.ts, lines 1-139): a call of
\* generateTimerAnnouncement, generateCompletionAnnouncement or
\* transcribeAudio, its attempts and the waits between them.

Fns == {"timer", "completion", "transcribe"}

\* retry(apiCall) uses the defaults retries = 3, delay = 1000 (lines 19-20,
\* 71, 103); transcribeAudio calls retry(apiCall, 2, 500) (line 134).
Retries(fn) == IF fn = "transcribe" THEN 2 ELSE 3

Delay(fn) == IF fn = "transcribe" THEN 500 ELSE 1000

\* A string of the response as its characters; a missing one (undefined) has
\* defined = FALSE.
Chars == {" ", "a"}

Strings == UNION {[1..n -> Chars] : n \in 0..MaxText}

Payloads == {[defined |-> FALSE, chars |-> <<>>]}
            \cup {[defined |-> TRUE, chars |-> c] : c \in Strings}

\* What generateContent, raced against the timeout (lines 7-14), gives one
\* attempt: a response, a rejection, or the timeout's rejection.
Responses ==
  {[kind |-> "rejected", payload |-> pl] : pl \in {[defined |-> FALSE, chars |-> <<>>]}}
  \cup {[kind |-> "timeout", payload |-> pl] : pl \in {[defined |-> FALSE, chars |-> <<>>]}}
  \cup {[kind |-> "response", payload |-> pl] : pl \in Payloads}

\* String.prototype.trim
RECURSIVE TrimStart(_)
TrimStart(c) ==
  IF c # <<>> /\ Head(c) = " " THEN TrimStart(Tail(c)) ELSE c

RECURSIVE TrimEnd(_)
TrimEnd(c) ==
  IF c # <<>> /\ c[Len(c)] = " " THEN TrimEnd(SubSeq(c, 1, Len(c) - 1)) ELSE c

Trim(c) == TrimEnd(TrimStart(c))

\* apiCall (lines 45-68, 81-100, 113-131) for the response r: the value it
\* returns, or the error it throws.
ApiCall(fn, r) ==
  IF r.kind # "response" THEN [ok |-> FALSE, value |-> <<>>, error |-> r.kind]
  ELSE IF fn = "transcribe"
       THEN \* response.text?.trim() || ""
            [ok |-> TRUE,
             value |-> IF r.payload.defined THEN Trim(r.payload.chars) ELSE <<>>,
             error |-> ""]
       ELSE \* if (!base64Audio) throw new Error(...)
            IF ~r.payload.defined \/ r.payload.chars = <<>>
            THEN [ok |-> FALSE, value |-> <<>>, error |-> "nodata"]
            ELSE [ok |-> TRUE, value |-> r.payload.chars, error |-> ""]

\* retry whose test lets one retry less through
RetryCatchOneLess(c, error) ==
  IF c.retries <= 1
  THEN [c EXCEPT !.pc = "thrown", !.error = error]
  ELSE [c EXCEPT !.pc = "wait"]

\* retry, the catch (lines 24-26): rethrow when no retry is left, else wait
RetryCatch(c, error) ==
  IF c.retries <= 0
  THEN [c EXCEPT !.pc = "thrown", !.error = error]
  ELSE [c EXCEPT !.pc = "wait"]

\* The call enters retry(apiCall, retries, delay).
CallService(fn) ==
  /\ call.pc = "idle"
  /\ call' = [pc |-> "attempt", fn |-> fn, retries |-> Retries(fn),
              delay |-> Delay(fn), waits |-> <<>>, log |-> <<>>,
              value |-> <<>>, error |-> ""]
  /\ UNCHANGED <<runVars, status, source>>

\* One attempt: await fn() (line 23) with the response r.
Attempt(r) ==
  /\ call.pc = "attempt"
  /\ LET a == ApiCall(call.fn, r)
     IN call' = IF a.ok
                THEN [call EXCEPT !.pc = "returned", !.value = a.value,
                                  !.log = Append(@, "ok")]
                ELSE RetryCatch([call EXCEPT !.log = Append(@, a.error)], a.error)
  /\ UNCHANGED <<runVars, status, source>>

\* The wait of line 26 is over: retry(fn, retries - 1, delay * 2) (line 27).
BackoffElapsed ==
  /\ call.pc = "wait"
  /\ call' = [call EXCEPT !.pc = "attempt", !.waits = Append(@, call.delay),
                          !.retries = @ - 1, !.delay = @ * 2]
  /\ UNCHANGED <<runVars, status, source>>

ServiceNext ==
  \/ \E fn \in Fns : CallService(fn)
  \/ \E r \in Responses : Attempt(r)
  \/ BackoffElapsed

ServiceSpec == Init /\ [][ServiceNext]_vars

\* `${n} minute${n !== 1 ? 's' : ''}` and the same for seconds (lines 38, 40)
Counted(n, unit) == ToString(n) \o " " \o unit \o (IF n # 1 THEN "s" ELSE "")

\* The phrase with a plural that does not look at the number
TimeStringAlwaysPlural(durationSeconds) ==
  LET minutes == durationSeconds \div 60
      seconds == durationSeconds % 60
      s1 == IF minutes > 0 THEN ToString(minutes) \o " minutes" ELSE ""
      s2 == IF minutes > 0 /\ seconds > 0 THEN s1 \o " and " ELSE s1
      s3 == IF seconds > 0 THEN s2 \o ToString(seconds) \o " seconds" ELSE s2
  IN IF s3 = "" THEN "0 seconds" ELSE s3

\* timeString of generateTimerAnnouncement (lines 34-41)
TimeString(durationSeconds) ==
  LET minutes == durationSeconds \div 60
      seconds == durationSeconds % 60
      s1 == IF minutes > 0 THEN Counted(minutes, "minute") ELSE ""
      s2 == IF minutes > 0 /\ seconds > 0 THEN s1 \o " and " ELSE s1
      s3 == IF seconds > 0 THEN s2 \o Counted(seconds, "second") ELSE s2
  IN IF s3 = "" THEN "0 seconds" ELSE s3

\* generateTimerAnnouncement(taskName, durationSeconds) up to its prompt
FormatDuration(d) ==
  /\ call.pc = "idle"
  /\ call' = [pc |-> "prompt", fn |-> "timer", durationSeconds |-> d,
              timeString |-> TimeString(d)]
  /\ UNCHANGED <<runVars, status, source>>

PhraseNext == \E d \in 0..MaxSeconds : FormatDuration(d)

PhraseSpec == Init /\ [][PhraseNext]_vars

\* playAudioBuffer (services/geminiService.ts, lines 189-229): one playback.
\*   state     "playing", or "over" once the buffer has run out or
\*             source.stop() was called
\*   pos, len  the position in the buffer and its length
\*   queued    the ended event of the source is waiting to be dispatched
\*   ended     source.onended has run
\*   resolved  resolvePromise() was called: the done promise is resolved
\*   stops     calls of stop so far
\*   error     an exception left stop

\* stop without its try/catch: what source.stop() throws leaves stop
StopHandleNoCatch(src, throws) ==
  IF throws
  THEN [src EXCEPT !.stops = @ + 1, !.error = TRUE]
  ELSE [src EXCEPT !.stops = @ + 1, !.state = "over",
                   !.queued = @ \/ src.state = "playing",
                   !.resolved = TRUE]

\* stop (lines 217-226).  source.stop() ends a playing source, whose ended
\* event is then dispatched; throws: source.stop() or a disconnect throws,
\* which the catch ignores.
StopHandle(src, throws) ==
  IF throws
  THEN [src EXCEPT !.stops = @ + 1, !.resolved = TRUE]
  ELSE [src EXCEPT !.stops = @ + 1, !.state = "over",
                   !.queued = @ \/ src.state = "playing",
                   !.resolved = TRUE]

\* playAudioBuffer(buffer, volume) for a buffer of len frames: source.start()
PlayAudioBuffer(len) ==
  /\ source.state = "none"
  /\ source' = [state |-> "playing", len |-> len, pos |-> 0, queued |-> FALSE,
                ended |-> FALSE, resolved |-> FALSE, stops |-> 0,
                error |-> FALSE]
  /\ UNCHANGED <<runVars, status, call>>

\* The audio context renders one more frame; after the last one the source
\* has ended.
RenderFrame ==
  /\ source.state = "playing"
  /\ source' = IF source.pos + 1 >= source.len
               THEN [source EXCEPT !.pos = source.len, !.state = "over",
                                   !.queued = TRUE]
               ELSE [source EXCEPT !.pos = @ + 1]
  /\ UNCHANGED <<runVars, status, call>>

\* source.onended (lines 211-213)
OnEnded ==
  /\ source.state = "over" /\ source.queued
  /\ source' = [source EXCEPT !.queued = FALSE, !.ended = TRUE,
                              !.resolved = TRUE]
  /\ UNCHANGED <<runVars, status, call>>

\* The caller calls stop(), at any moment after playAudioBuffer returned.
Stop(throws) ==
  /\ source.state # "none" /\ source.stops < MaxStops
  /\ source' = StopHandle(source, throws)
  /\ UNCHANGED <<runVars, status, call>>

PlaybackNext ==
  \/ \E len \in 1..MaxFrames : PlayAudioBuffer(len)
  \/ RenderFrame
  \/ OnEnded
  \/ \E throws \in BOOLEAN : Stop(throws)

PlaybackSpec == Init /\ [][PlaybackNext]_vars

\* App and TimerSetup (App.tsx): the step list and the settings are edited
\* while the status is SETUP, handleStart enters the run view, handleExit
\* leaves it.  What RunMode does while it is mounted is left out here.

\* handleStart that does not look at the step list
HandleStartHandlerUnchecked(st, ts) == "RUNNING"

\* handleStart (lines 15-19): the status after it
HandleStartHandler(st, ts) == IF Len(ts) > 0 THEN "RUNNING" ELSE st

\* The chains handleLoad can find in the browser's storage: whatever was
\* stored there, an empty list and zero durations included.
SavedLists == {<<>>} \cup UNION {[1..n -> 0..MaxDuration] : n \in 1..2}

\* The state of App when it is constructed (lines 7-13); RunMode is not
\* mounted.
AppInit ==
  /\ timers = <<>>
  /\ bufferSeconds = 0
  /\ status = "SETUP"
  /\ currentIndex = 0
  /\ phase = "PREPARING_AUDIO"
  /\ remainingSeconds = 0
  /\ isPaused = FALSE
  /\ errorMessage = FALSE
  /\ opIdRef = 0
  /\ audioStopRef = 0
  /\ intervalRef = 0
  /\ audioCache = {}
  /\ playing = {}
  /\ intervals = {}
  /\ tasks = {}
  /\ sync = NoSync
  /\ exited = FALSE
  /\ nUser = 0
  /\ call = NoCall
  /\ source = NoSource

\* What the handlers of App and TimerSetup leave alone.
appRest == <<currentIndex, phase, remainingSeconds, isPaused, errorMessage,
             opIdRef, audioStopRef, intervalRef, audioCache, playing,
             intervals, tasks, sync, exited, nUser, call, source>>

\* addTimer (lines 120-138): a name and a duration > 0 are required
AddTimer(d) ==
  /\ status = "SETUP" /\ Len(timers) < MaxAppSteps
  /\ d > 0
  /\ timers' = Append(timers, d)
  /\ UNCHANGED <<bufferSeconds, status, appRest>>

\* removeTimer (lines 139-141)
RemoveTimer(i) ==
  /\ status = "SETUP" /\ i \in 1..Len(timers)
  /\ timers' = SubSeq(timers, 1, i - 1) \o SubSeq(timers, i + 1, Len(timers))
  /\ UNCHANGED <<bufferSeconds, status, appRest>>

\* duplicateTimer (lines 143-149)
DuplicateTimer(i) ==
  /\ status = "SETUP" /\ Len(timers) < MaxAppSteps /\ i \in 1..Len(timers)
  /\ timers' = Append(timers, timers[i])
  /\ UNCHANGED <<bufferSeconds, status, appRest>>

\* handleLoad (lines 254-258)
HandleLoad(list, b) ==
  /\ status = "SETUP"
  /\ timers' = list /\ bufferSeconds' = b
  /\ UNCHANGED <<status, appRest>>

\* The buffer input of the settings (line 463)
SetBuffer(b) ==
  /\ status = "SETUP"
  /\ bufferSeconds' = b
  /\ UNCHANGED <<timers, status, appRest>>

\* The start button: onStart = handleStart
HandleStart ==
  /\ status = "SETUP"
  /\ status' = HandleStartHandler(status, timers)
  /\ UNCHANGED <<timers, bufferSeconds, appRest>>

\* onExit = handleExit (lines 21-23)
HandleExit ==
  /\ status = "RUNNING"
  /\ status' = "SETUP"
  /\ UNCHANGED <<timers, bufferSeconds, appRest>>

AppNext ==
  \/ \E d \in 0..MaxDuration : AddTimer(d)
  \/ \E i \in 1..MaxAppSteps : RemoveTimer(i)
  \/ \E i \in 1..MaxAppSteps : DuplicateTimer(i)
  \/ \E list \in SavedLists, b \in BufferValues : HandleLoad(list, b)
  \/ \E b \in BufferValues : SetBuffer(b)
  \/ HandleStart
  \/ HandleExit

AppSpec == AppInit /\ [][AppNext]_vars

----------------------------------------------------------------------------
RunSequenceCalled == sync = NoSync /\ sync' # NoSync

ExitStep == ~exited /\ exited'

\* A step that changes neither phase, currentIndex nor remainingSeconds, and
\* starts no playback and no interval.
Inert ==
  /\ UNCHANGED <<phase, currentIndex, remainingSeconds>>
  /\ playing' \subseteq playing
  /\ intervals' \subseteq intervals

\* C1: a continuation resumed with a captured operation id that is not the
\* live opIdRef (a pending await of runSequence or handleStepComplete, or an
\* interval callback) changes neither phase, currentIndex nor
\* remainingSeconds and starts no playback and no tick.
C1_StaleContinuationInert ==
  [][ /\ \A t \in tasks \ tasks' :
           (t.kind \in RunKinds /\ t.op # opIdRef) => Inert
      /\ \A iv \in intervals : (iv.op # opIdRef /\ Tick(iv)) => Inert ]_vars

C1_Witness ==
  /\ phase = "COUNTDOWN" /\ remainingSeconds > 0 /\ intervals # {}
  /\ \E t \in tasks : t.kind \in RunKinds /\ t.op # opIdRef

\* The successor of a phase in an undisturbed run.
PhaseSuccessor ==
  \/ <<phase, currentIndex>>' = <<phase, currentIndex>>
  \/ phase = "PREPARING_AUDIO" /\ phase' = "ANNOUNCING" /\ currentIndex' = currentIndex
  \/ phase = "ANNOUNCING" /\ phase' = "COUNTDOWN" /\ currentIndex' = currentIndex
  \/ /\ phase = "COUNTDOWN"
     /\ currentIndex + 1 < totalSteps
     /\ currentIndex' = currentIndex + 1
     /\ phase' = IF bufferSeconds > 0 THEN "BUFFER" ELSE "PREPARING_AUDIO"
  \/ /\ phase = "COUNTDOWN"
     /\ currentIndex + 1 = totalSteps
     /\ currentIndex' = currentIndex
     /\ phase' = "COMPLETION_ANNOUNCEMENT"
  \/ phase = "BUFFER" /\ phase' = "PREPARING_AUDIO" /\ currentIndex' = currentIndex
  \/ phase = "COMPLETION_ANNOUNCEMENT" /\ phase' = "COMPLETED" /\ currentIndex' = currentIndex

\* C2: with every speech call succeeding and no user action, the run goes
\* through PREPARING_AUDIO, ANNOUNCING, COUNTDOWN (and BUFFER when one is
\* inserted) of step 0, 1, ..., N-1 in this order, each once, then through
\* COMPLETION_ANNOUNCEMENT, and ends in COMPLETED.
C2_PhaseOrder == [][PhaseSuccessor]_vars /\ <>(phase = "COMPLETED")

C2_Witness ==
  /\ phase = "COMPLETED" /\ totalSteps = MaxQuietSteps /\ bufferSeconds > 0
  /\ tasks = {} /\ audioCache = 0..totalSteps

\* C3: if the user never exits and never leaves the run paused, and every
\* pending call, playback, alarm and tick completes, the phase eventually is
\* COMPLETED, whatever fails and whatever is skipped or paused on the way.
C3_EventuallyCompleted == <>(phase = "COMPLETED")

C3_Witness ==
  phase = "COMPLETED" /\ nUser = MaxUserActions /\ audioCache = {} /\ tasks = {}

\* Every playback that sounds was started by the live operation for the
\* position shown.
NoStalePlayback ==
  \A p \in playing :
    /\ p.op = opIdRef
    /\ IF p.index < totalSteps
       THEN p.index = currentIndex /\ phase = "ANNOUNCING"
       ELSE phase = "COMPLETION_ANNOUNCEMENT"

\* C4: skip with currentIndex = c leaves no playback and no tick behind and
\* sets the phase to PREPARING_AUDIO of c+1 (COMPLETION_ANNOUNCEMENT when
\* c+1 >= N); what plays afterwards belongs to the new position.
C4_Skip ==
  /\ [][Skip =>
          /\ playing' = {} /\ audioStopRef' = 0
          /\ intervals' = {} /\ intervalRef' = 0
          /\ IF currentIndex + 1 < totalSteps
             THEN phase' = "PREPARING_AUDIO" /\ currentIndex' = currentIndex + 1
             ELSE phase' = "COMPLETION_ANNOUNCEMENT"]_vars
  /\ []NoStalePlayback

C4_Witness ==
  /\ sync # NoSync /\ nUser > 0 /\ playing = {}
  /\ \E t \in tasks : t.kind = "done" /\ t.op # opIdRef

AlarmTasks == {t \in tasks : t.kind = "alarm"}

\* C5 as claimed: between a pause pressed in COUNTDOWN and its resume
\* remainingSeconds does not change, the resume continues from that value,
\* and the completion callback (the alarm) of a countdown is invoked once.
C5_PauseFreezes ==
  /\ [][(isPaused /\ isPaused' /\ phase = "COUNTDOWN")
          => remainingSeconds' = remainingSeconds]_vars
  /\ [][Resume => remainingSeconds' = remainingSeconds]_vars
  /\ [](\A t, u \in AlarmTasks : (t.op = u.op /\ t.index = u.index) => t = u)

\* C6: at most one playback sounds and at most one interval is scheduled, and
\* they are the ones audioStopRef and intervalRef hold.
C6_OneHandleEach ==
  /\ Cardinality(playing) <= 1
  /\ Cardinality(intervals) <= 1
  /\ \A p \in playing : p.op = audioStopRef
  /\ \A iv \in intervals : iv.id = intervalRef

C6_Witness ==
  \E iv \in intervals : iv.cb = "buffer" /\ iv.id = intervalRef /\ AlarmTasks # {}

\* C7: opIdRef never decreases; runSequence and the teardown raise it by
\* exactly one and nothing else changes it.
C7_GenerationCounter ==
  [][ /\ opIdRef' >= opIdRef
      /\ (RunSequenceCalled \/ ExitStep) => opIdRef' = opIdRef + 1
      /\ ~(RunSequenceCalled \/ ExitStep) => opIdRef' = opIdRef ]_vars

C7_Witness == exited /\ opIdRef >= 3 /\ nUser > 0

\* C8 as claimed: a resume raises the generation.
C8_ResumeFreshGeneration == [][Resume => opIdRef' > opIdRef]_vars

\* C9: runSequence, before its cache lookup, leaves no playback and no
\* interval, the generation raised by one and captured as its id, no error
\* notice and paused = false.
C9_EntryContract ==
  [][RunSequenceCalled =>
       /\ playing' = {} /\ audioStopRef' = 0
       /\ intervals' = {} /\ intervalRef' = 0
       /\ opIdRef' = opIdRef + 1 /\ sync'[1] = opIdRef'
       /\ ~errorMessage' /\ ~isPaused']_vars

C9_Witness ==
  /\ sync # NoSync /\ sync[1] = opIdRef /\ opIdRef >= 2 /\ nUser > 0
  /\ AlarmTasks # {}

\* C10: a failed fetch or decode of step i's announcement, delivered to a
\* live runSequence(i), sets the error notice and the phase COUNTDOWN of
\* step i with remainingSeconds = its duration and a running tick, and
\* starts no playback; delivered to a superseded one it changes nothing.
C10_SilentCountdown ==
  [][\A t \in tasks :
       (/\ t.kind \in {"fetch", "decode"} /\ t.index < totalSteps
        /\ (FetchDone(t, FALSE) \/ DecodeDone(t, FALSE)))
       => IF t.op = opIdRef
          THEN /\ errorMessage' /\ phase' = "COUNTDOWN"
               /\ phase = "PREPARING_AUDIO"
               /\ currentIndex' = t.index /\ currentIndex' = currentIndex
               /\ remainingSeconds' = Duration(t.index)
               /\ \E iv \in intervals' : iv.id = intervalRef' /\ iv.op = t.op
               /\ playing' = {}
          ELSE UNCHANGED <<currentIndex, phase, remainingSeconds, isPaused,
                           errorMessage, opIdRef, audioStopRef, intervalRef,
                           audioCache, playing, intervals>>]_vars

C10_Witness ==
  /\ errorMessage /\ phase = "COUNTDOWN" /\ playing = {} /\ currentIndex = 1
  /\ remainingSeconds = Duration(1) /\ remainingSeconds > 0
  /\ \E iv \in intervals : iv.cb = "step" /\ iv.op = opIdRef

\* C11: a failure of the fetch, of the decode or of the playback of the
\* completion announcement, in a runSequence call whose generation is live,
\* is swallowed: the phase becomes COMPLETED and no error notice is shown.
C11_CompletionFailureSwallowed ==
  [][ /\ \A t \in tasks :
           (/\ t.kind \in {"fetch", "decode"} /\ t.index >= totalSteps
            /\ t.op = opIdRef
            /\ (FetchDone(t, FALSE) \/ DecodeDone(t, FALSE) \/ DecodePlayThrows(t)))
           => (phase' = "COMPLETED" /\ ~errorMessage')
      /\ (LookupPlayThrows /\ sync[2] >= totalSteps)
           => (phase' = "COMPLETED" /\ ~errorMessage') ]_vars

\* COMPLETED reached by a call that never started its playback: the
\* completion branch leaves the stop handle in audioStopRef once it plays.
C11_Witness == phase = "COMPLETED" /\ audioStopRef = 0 /\ ~errorMessage

\* C12: the teardown stops the playback, clears the interval and raises the
\* generation in one step; after it no pending response, playback completion,
\* alarm completion or interval callback changes phase, currentIndex or
\* remainingSeconds or starts a playback or an interval.
C12_ExitFinal ==
  [][ /\ ExitStep => /\ playing' = {} /\ audioStopRef' = 0
                     /\ intervals' = {} /\ intervalRef' = 0
                     /\ opIdRef' = opIdRef + 1
      /\ exited => Inert ]_vars

\* Exit pressed while an announcement was playing, and every continuation
\* that was pending has been resumed since.
C12_Witness ==
  exited /\ phase = "ANNOUNCING" /\ tasks = {} /\ nUser > 0

\* The stores into audioCache of a step: audioCache.current.set(index, buffer)
\* at line 82 (preloadNextAudio) and at line 141 (runSequence, step branch).
CacheStored(t) ==
  \/ PreloadDecodeDone(t, TRUE)
  \/ t.index < totalSteps /\ (DecodeDone(t, TRUE) \/ DecodePlayThrows(t))

\* C13 as claimed: no store goes to an index that has an entry, and no entry
\* is removed.
C13_WriteOnce ==
  [][ /\ \A t \in tasks : CacheStored(t) => t.index \notin audioCache
      /\ audioCache \subseteq audioCache' ]_vars

PreloadTasks == {t \in tasks : t.kind \in {"pfetch", "pdecode"}}

\* C14 as claimed: a preload of i that resolves leaves i in the cache, and
\* two calls of preloadNextAudio(i) invoke the speech service for i once: no
\* two of its calls are in flight for the same index.
C14_EnsureOnce ==
  /\ [][\A t \in tasks : PreloadDecodeDone(t, TRUE) => t.index \in audioCache']_vars
  /\ [](\A t, u \in PreloadTasks : t.index = u.index => t = u)

\* C15: a failed fetch or decode inside preloadNextAudio ends that preload
\* and nothing else: cache, phase, currentIndex, remainingSeconds and the
\* error notice stay as they are and no new attempt is started; a later
\* runSequence that misses the cache fetches the announcement itself.
C15_PreloadFailureSilent ==
  [][ /\ \A t \in tasks :
           (PreloadFetchDone(t, FALSE) \/ PreloadDecodeDone(t, FALSE))
           => /\ UNCHANGED <<audioCache, phase, currentIndex, remainingSeconds,
                             errorMessage>>
              /\ tasks' = tasks \ {t}
      /\ (Lookup /\ sync[2] \notin audioCache)
           => Task("fetch", sync[1], sync[2], 0) \in tasks' ]_vars

\* Step 1 reached without a skip, so that its preload was started during
\* step 0; the preload is over, left nothing in the cache, and runSequence(1)
\* is fetching.
C15_Witness ==
  /\ nUser = 0 /\ currentIndex = 1 /\ phase = "PREPARING_AUDIO"
  /\ 1 \notin audioCache /\ PreloadTasks = {}
  /\ Task("fetch", opIdRef, 1, 0) \in tasks

\* The preloads a step starts: the calls of the speech service made by
\* preloadNextAudio in this step.
PreloadsStarted == {t \in tasks' \ tasks : t.kind = "pfetch"}

\* C16 as claimed: the prefetch of i+1 starts when step i's announcement
\* begins to play: the step that enters ANNOUNCING starts it (unless i+1 is
\* in the cache), with the playback's completion pending.
C16_PrefetchWhileAnnouncing ==
  [][(phase # "ANNOUNCING" /\ phase' = "ANNOUNCING"
       /\ currentIndex' + 1 \notin audioCache')
      => /\ Task("done", opIdRef', currentIndex', 0) \in tasks'
         /\ Task("pfetch", opIdRef', currentIndex' + 1, 0) \in tasks']_vars

\* C16 as the code has it: the prefetch of i+1 starts in the step that starts
\* the countdown of step i (the playback completion of a live runSequence(i),
\* or its failure catch), once per call, and is left out only when i+1 is in
\* the cache.
C16_PrefetchAtCountdown ==
  [][ /\ \A t \in PreloadsStarted :
           /\ phase \in {"PREPARING_AUDIO", "ANNOUNCING"}
           /\ phase' = "COUNTDOWN"
           /\ t.op = opIdRef' /\ opIdRef' = opIdRef
           /\ t.index = currentIndex' + 1
           /\ PreloadsStarted = {t}
      /\ (phase # "COUNTDOWN" /\ phase' = "COUNTDOWN"
            /\ currentIndex' + 1 \notin audioCache')
           => Task("pfetch", opIdRef', currentIndex' + 1, 0) \in tasks' ]_vars

\* The announcement of step 1 played to its end and the countdown started
\* with the prefetch of the completion announcement.
C16_Witness ==
  /\ phase = "COUNTDOWN" /\ ~errorMessage /\ currentIndex = 1
  /\ audioStopRef = 0 /\ intervals # {}
  /\ Task("pfetch", opIdRef, 2, 0) \in tasks

\* C17 as claimed: one sound at a time.  A pending playAlarm is an alarm that
\* sounds: its promise resolves when its tones end (geminiService.ts, line
\* 326), and nothing can stop them.
C17_OneSound == Cardinality(playing) + Cardinality(AlarmTasks) <= 1

\* C18: currentIndex is in 0..stepCount, and equals stepCount only in
\* COMPLETION_ANNOUNCEMENT or COMPLETED.
C18_IndexRange ==
  /\ currentIndex \in 0..totalSteps
  /\ currentIndex = totalSteps
       => phase \in {"COMPLETION_ANNOUNCEMENT", "COMPLETED"}

\* The completion announcement entered by a skip pressed at the last step:
\* runSequence(stepCount) has run and currentIndex is still the last step.
C18_Witness ==
  /\ phase = "COMPLETION_ANNOUNCEMENT" /\ totalSteps = 2 /\ nUser > 0
  /\ currentIndex = totalSteps - 1 /\ sync # NoSync /\ sync[2] = totalSteps

\* C19: paused holds only in COUNTDOWN or BUFFER, and togglePause called in
\* any other phase returns the state it was called in.
C19_PausedOnlyWhileTicking ==
  /\ isPaused => phase \in {"COUNTDOWN", "BUFFER"}
  /\ phase \notin {"COUNTDOWN", "BUFFER"} => TogglePauseHandler(St) = St

\* Paused during the buffer between two steps.
C19_Witness ==
  isPaused /\ phase = "BUFFER" /\ intervals = {} /\ remainingSeconds > 0

\* C20 as claimed: while paused holds no interval is scheduled.
C20_NoTickWhilePaused == isPaused => intervals = {}

\* The waits the claim gives, in ms.
ClaimedWaits(fn) == IF fn = "transcribe" THEN <<500, 1000>> ELSE <<1000, 2000, 4000>>

\* C21: a synthesis call makes the first attempt and at most 3 retries after
\* waits of 1000, 2000 and 4000 ms (transcription: 2 retries, 500 and 1000
\* ms), returns with the first attempt that succeeds, and throws the last
\* error when the last retry failed; a response without audio is a failed
\* attempt.
C21_RetrySchedule ==
  /\ [](call.pc # "idle" =>
         LET n == Len(call.log)
             failed == IF call.pc = "returned" THEN n - 1 ELSE n
             waited == IF call.pc = "attempt" THEN n ELSE n - 1
         IN /\ n <= Len(ClaimedWaits(call.fn)) + 1
            /\ call.waits = SubSeq(ClaimedWaits(call.fn), 1, waited)
            /\ \A i \in 1..failed : call.log[i] # "ok"
            /\ call.pc = "returned" => call.log[n] = "ok"
            /\ call.pc = "thrown" =>
                 /\ n = Len(ClaimedWaits(call.fn)) + 1
                 /\ call.error = call.log[n])
  /\ [][\A r \in Responses :
          (/\ Attempt(r) /\ call.fn # "transcribe" /\ r.kind = "response"
           /\ (~r.payload.defined \/ r.payload.chars = <<>>))
          => call'.pc # "returned"]_vars

\* A synthesis call that failed three times, in three ways, and returned
\* with its last retry.
C21_Witness ==
  /\ call.pc = "returned" /\ call.fn = "timer"
  /\ call.log = <<"nodata", "timeout", "rejected", "ok">>
  /\ call.waits = <<1000, 2000, 4000>>

\* C22 as claimed: transcribeAudio never returns the empty string: an empty
\* or blank text of the response makes it throw.
C22_NoEmptyTranscript ==
  (call.pc = "returned" /\ call.fn = "transcribe") => call.value # <<>>

\* The phrase the claim gives for d seconds.
ClaimedPhrase(d) ==
  LET m == d \div 60
      s == d % 60
      mins == IF m = 1 THEN "1 minute" ELSE ToString(m) \o " minutes"
      secs == IF s = 1 THEN "1 second" ELSE ToString(s) \o " seconds"
  IN CASE d = 0 -> "0 seconds"
       [] m > 0 /\ s > 0 -> mins \o " and " \o secs
       [] m > 0 /\ s = 0 -> mins
       [] m = 0 /\ s > 0 -> secs

\* C23: the phrase of the announcement for every duration, among them "0
\* seconds" for 0, "1 minute and 30 seconds" for 90, "1 minute" for 60 and
\* "45 seconds" for 45.
C23_DurationPhrase ==
  call.pc = "prompt" =>
    /\ call.timeString = ClaimedPhrase(call.durationSeconds)
    /\ call.durationSeconds = 0 => call.timeString = "0 seconds"
    /\ call.durationSeconds = 90 => call.timeString = "1 minute and 30 seconds"
    /\ call.durationSeconds = 60 => call.timeString = "1 minute"
    /\ call.durationSeconds = 45 => call.timeString = "45 seconds"

C23_Witness ==
  /\ call.pc = "prompt" /\ call.durationSeconds = 121
  /\ call.timeString = "2 minutes and 1 second"

\* C24: the done promise of a playback is resolved by its natural end or by
\* a call of stop, and by nothing else; every call of stop, the first or a
\* later one, before or after the end, returns without an exception and
\* leaves the promise resolved.
C24_DoneResolves ==
  /\ [][ /\ \A throws \in BOOLEAN :
              Stop(throws) => (source'.resolved /\ ~source'.error)
         /\ OnEnded => source'.resolved ]_vars
  /\ [](source.state # "none" =>
          /\ source.resolved <=> (source.ended \/ source.stops > 0)
          /\ ~source.error)

\* stop called twice after the playback ended by itself.
C24_Witness ==
  /\ source.state = "over" /\ source.pos = source.len /\ source.ended
  /\ source.stops = 2 /\ source.resolved

\* C25: the status is RUNNING only with a step list that is not empty, and
\* handleStart with an empty list leaves the status SETUP.
C25_RunningNeedsSteps ==
  /\ status = "RUNNING" => Len(timers) >= 1
  /\ (status = "SETUP" /\ timers = <<>>) => HandleStartHandler(status, timers) = "SETUP"

\* The run view entered with a list from which a step was removed before.
C25_Witness == status = "RUNNING" /\ timers = <<MaxDuration, 0, MaxDuration>>

\* C26: when the alarm of step i resolves or rejects in a live
\* handleStepComplete, the phase becomes BUFFER with currentIndex = i+1,
\* remainingSeconds = bufferSeconds and a tick exactly when i+1 < stepCount
\* and bufferSeconds > 0, and runSequence(i+1) is called otherwise; BUFFER is
\* never the phase after the last step or with bufferSeconds = 0.
C26_AfterAlarm ==
  /\ [][\A t \in tasks, ok \in BOOLEAN :
          (t.kind = "alarm" /\ t.op = opIdRef /\ AlarmDone(t, ok))
          => IF t.index + 1 < totalSteps /\ bufferSeconds > 0
             THEN /\ phase' = "BUFFER" /\ currentIndex' = t.index + 1
                  /\ remainingSeconds' = bufferSeconds
                  /\ opIdRef' = opIdRef /\ sync' = NoSync
                  /\ \E iv \in intervals' : iv.id = intervalRef' /\ iv.op = opIdRef
             ELSE /\ RunSequenceCalled /\ sync'[2] = t.index + 1
                  /\ phase' # "BUFFER"]_vars
  /\ [](phase = "BUFFER" => (bufferSeconds > 0 /\ currentIndex < totalSteps))

\* The buffer before step 1, entered after the alarm of step 0.
C26_Witness ==
  /\ phase = "BUFFER" /\ currentIndex = 1 /\ remainingSeconds = bufferSeconds
  /\ AlarmTasks = {} /\ \E iv \in intervals : iv.cb = "buffer" /\ iv.idx = 1

C28_CompletedTerminal ==
  /\ [][phase = "COMPLETED"
          => /\ phase' = "COMPLETED"
             /\ Inert
             /\ AlarmTasks' \subseteq AlarmTasks
             /\ sync' = NoSync]_vars
  /\ [](phase = "COMPLETED" => (intervals = {} /\ sync = NoSync))

\* COMPLETED reached while the alarm of an earlier generation is pending.
C28_Witness ==
  phase = "COMPLETED" /\ ~exited /\ \E t \in AlarmTasks : t.op < opIdRef

\* C29: runSequence(index) that finds index in audioCache (a step index or
\* the sentinel stepCount) starts no fetch and no decode, and plays the
\* buffer under its own generation unless playAudioBuffer throws; on a miss
\* it starts the fetch for index and plays nothing yet.  A fetch of
\* runSequence is started by no other step.
C29_CacheFirst ==
  /\ [][(sync # NoSync /\ sync[2] \in audioCache)
          => /\ {t \in tasks' \ tasks : t.kind \in {"fetch", "decode"}} = {}
             /\ Lookup => /\ playing' = playing \cup {[op |-> sync[1], index |-> sync[2]]}
                          /\ Task("done", sync[1], sync[2], 0) \in tasks'
                          /\ audioStopRef' = sync[1]]_vars
  /\ [][(sync # NoSync /\ sync[2] \notin audioCache)
          => /\ tasks' = tasks \cup {Task("fetch", sync[1], sync[2], 0)}
             /\ playing' = playing]_vars
  /\ [][\A t \in tasks' \ tasks :
          t.kind = "fetch" => (sync # NoSync /\ sync[2] \notin audioCache)]_vars

\* runSequence(stepCount) has reached its lookup and the preload has put the
\* completion announcement in the cache.
C29_Witness ==
  /\ sync # NoSync /\ sync[2] = totalSteps /\ totalSteps \in audioCache
  /\ phase = "COMPLETION_ANNOUNCEMENT"

\* C30: the step that enters COUNTDOWN (the end of the announcement of a
\* live runSequence(i), or its failure catch) keeps the generation and
\* currentIndex = i, sets remainingSeconds to the duration of step i,
\* schedules the tick of handleStepComplete(i) and starts exactly the
\* prefetch of i+1, or none when i+1 is cached.  A countdown tick with a
\* prefetch pending counts down as it does without one.
C30_EnterCountdown ==
  /\ [][(phase # "COUNTDOWN" /\ phase' = "COUNTDOWN")
          => /\ opIdRef' = opIdRef /\ currentIndex' = currentIndex
             /\ currentIndex < totalSteps /\ ~isPaused'
             /\ remainingSeconds' = Duration(currentIndex)
             /\ \E iv \in intervals' :
                  /\ iv.id = intervalRef' /\ iv.op = opIdRef
                  /\ iv.cb = "step" /\ iv.idx = currentIndex
             /\ PreloadsStarted =
                  IF currentIndex + 1 \in audioCache THEN {}
                  ELSE {Task("pfetch", opIdRef, currentIndex + 1, 0)}]_vars
  /\ [][\A iv \in intervals :
          (/\ phase = "COUNTDOWN" /\ iv.op = opIdRef /\ remainingSeconds > 1
           /\ PreloadTasks # {} /\ Tick(iv))
          => /\ remainingSeconds' = remainingSeconds - 1
             /\ PreloadTasks' = PreloadTasks /\ phase' = "COUNTDOWN"]_vars

\* The countdown of step 0 has ticked while the prefetch of step 1 it started
\* is still waiting for the speech service.
C30_Witness ==
  /\ phase = "COUNTDOWN" /\ currentIndex = 0 /\ ~errorMessage /\ ~isPaused
  /\ Duration(0) = MaxDuration /\ remainingSeconds = MaxDuration - 1
  /\ Task("pfetch", opIdRef, 1, 0) \in tasks
  /\ \E iv \in intervals : iv.id = intervalRef /\ iv.op = opIdRef /\ iv.cb = "step"

\* The intervals of superseded generations for the current step, as
\* startTimer could have scheduled them.
SupersededIntervals ==
  [id : {1}, op : 0..(opIdRef - 1),
   cb : {"step", "buffer", "resumeStep", "resumeBuffer"}, idx : {currentIndex}]

\* C31: a tick of a scheduled interval above one second lowers
\* remainingSeconds by one and does nothing else; a tick at one or zero
\* leaves it 0, removes the interval and invokes onComplete once (one alarm
\* started for the timer of a step, one runSequence call for the timer of a
\* buffer).  remainingSeconds is never negative.  With no interval scheduled
\* (after stopEverything or a pause) remainingSeconds changes only when a
\* timer is started, and an alarm starts only at a tick.  The callback of an
\* interval whose generation is superseded changes neither remainingSeconds
\* nor anything a completion callback would.
C31_TickSource ==
  /\ [](remainingSeconds >= 0)
  /\ [][\A iv \in intervals :
          Tick(iv)
          => IF remainingSeconds > 1
             THEN /\ remainingSeconds' = remainingSeconds - 1
                  /\ intervals' = intervals /\ tasks' = tasks /\ sync' = NoSync
                  /\ phase' = phase /\ opIdRef' = opIdRef
             ELSE /\ remainingSeconds' = 0 /\ iv \notin intervals'
                  /\ intervals' = {}
                  /\ IF iv.cb \in {"step", "resumeStep"}
                     THEN /\ Cardinality(AlarmTasks') = Cardinality(AlarmTasks) + 1
                          /\ AlarmTasks \subseteq AlarmTasks'
                          /\ \A t \in AlarmTasks' \ AlarmTasks :
                               t.index = iv.idx /\ t.op = opIdRef
                          /\ sync' = NoSync /\ opIdRef' = opIdRef
                     ELSE /\ RunSequenceCalled /\ sync'[2] = iv.idx
                          /\ AlarmTasks' = AlarmTasks]_vars
  /\ [][(intervals = {} /\ remainingSeconds' # remainingSeconds)
          => intervals' # {}]_vars
  /\ [][(AlarmTasks' \ AlarmTasks # {}) => \E iv \in intervals : Tick(iv)]_vars
  /\ [](\A iv \in SupersededIntervals :
          LET s == IntervalCallback(St, iv)
          IN /\ s.remainingSeconds = remainingSeconds /\ s.tasks = tasks
             /\ s.sync = sync /\ s.phase = phase /\ s.opIdRef = opIdRef
             /\ s.currentIndex = currentIndex)

\* The timer of a step of the longest duration has counted down to zero,
\* stopped itself and started the alarm, with no skip or pause in the run.
C31_Witness ==
  /\ phase = "COUNTDOWN" /\ remainingSeconds = 0 /\ intervals = {}
  /\ Duration(currentIndex) = MaxDuration /\ nUser = 0 /\ ~exited
  /\ AlarmTasks = {Task("alarm", opIdRef, currentIndex, 1)}

\* C32 as claimed: in BUFFER currentIndex is the step the buffer waits for
\* (i+1 after the alarm of step i), and a skip pressed there calls
\* runSequence for that step: the phase becomes PREPARING_AUDIO with
\* currentIndex unchanged.
C32_SkipInBuffer ==
  [][(phase = "BUFFER" /\ Skip)
       => /\ sync'[2] = currentIndex
          /\ phase' = "PREPARING_AUDIO" /\ currentIndex' = currentIndex]_vars

\* The alarms started by a handleStepComplete call of the live generation
\* that have not ended yet.
LiveAlarms == {t \in AlarmTasks : t.op = opIdRef}

\* C33 as claimed: a step's alarm plays once and the decision after it is
\* taken once: no two alarms of the live generation are pending together,
\* under any pause and resume, and the alarm whose end takes the decision
\* ends in COUNTDOWN, the phase of the step that rang it.
C33_AlarmOnce ==
  /\ [](Cardinality(LiveAlarms) <= 1)
  /\ [][\A t \in LiveAlarms, ok \in BOOLEAN :
          AlarmDone(t, ok) => phase = "COUNTDOWN"]_vars

\* C34: every step of a run (advance, buffer end, skip, pause, resume, stale
\* callback) leaves currentIndex as it is or raises it by one, and a skip
\* before the last step raises it by one.
C34_IndexMonotone ==
  /\ [][currentIndex' \in {currentIndex, currentIndex + 1}]_vars
  /\ [][(Skip /\ currentIndex + 1 < totalSteps)
          => currentIndex' = currentIndex + 1]_vars

\* The last step of a two-step run reached after a skip and a pause.
C34_Witness ==
  /\ totalSteps = 2 /\ currentIndex = 1 /\ nUser = MaxUserActions
  /\ phase = "COUNTDOWN" /\ isPaused
====
